---- MODULE Spec2Model ----
(***************************************************************************)
(* ndk-examples/examples/looper.rs: android_main.                          *)
(*                                                                         *)
(* Two threads.  The looper thread (android_main) registers the read end   *)
(* of custom_callback_pipe with the thread's Looper, then runs the         *)
(* lifecycle loop `while !exit { app.poll_events(timeout, closure) }`.     *)
(* The producer thread writes i = 0, 1, 2, ... as four little-endian bytes *)
(* first to custom_event_pipe and then to custom_callback_pipe.            *)
(*                                                                         *)
(* The Looper itself (descriptor table, wait, callback dispatch and        *)
(* detach-on-false) lives outside examples/looper.rs and is modelled from  *)
(* the specification's sections 4.1 and 4.2.                               *)
(***************************************************************************)
EXTENDS Integers, Sequences, FiniteSets

VARIABLES
    table,           \* the Looper's watched descriptors: a set of entries
    regResult,       \* result of the last register / unregister call
    evPipe,          \* bytes in custom_event_pipe, oldest first
    cbPipe,          \* bytes in custom_callback_pipe, oldest first
    i,               \* producer thread: loop counter
    ppc,             \* producer thread: position
    exit,            \* looper thread: `exit`
    redraw_pending,  \* looper thread: `redraw_pending`
    render_state,    \* looper thread: `render_state` is Some(())
    pc,              \* looper thread: position
    ev,              \* event surfaced by the current poll_events call
    cbReady,         \* readiness of the callback handle seen by the current wait
    ops,             \* history: what the current wait cycle did, in order
    cbLog,           \* history: every callback invocation, in order
    scenarioPos,     \* history: how far the delivered events follow Scenario
    renderPasses,    \* history: render passes while following Scenario
    rt,              \* wire-format harness: one send / receive round trip
    tcall            \* table harness: the last table call

vars == <<table, regResult, evPipe, cbPipe, i, ppc, exit, redraw_pending,
          render_state, pc, ev, cbReady, ops, cbLog, scenarioPos,
          renderPasses, rt, tcall>>

looperVars == <<exit, redraw_pending, render_state, pc, ev, cbReady, ops,
                scenarioPos, renderPasses>>

producerVars == <<evPipe, i, ppc>>

harnessVars == <<rt, tcall>>

----------------------------------------------------------------------------
(* Bounds and program constants *)

\* Capacity of each pipe, in 4-byte messages (the kernel's is 16384).
PipeCapMsgs == 7

\* size_of_val(&recv), size_of_val(&i): a u32 is four bytes.
MsgSize == 4

\* The callback detaches once the count reaches 5.
Threshold == 5

\* A u32 is held as its two 16-bit halves, value = hi * 65536 + lo, since
\* model values are limited to 31 bits.
Half == 65536

U32Of(n) == [hi |-> n \div Half, lo |-> n % Half]

U32Max == [hi |-> Half - 1, lo |-> Half - 1]

U32Lt(a, b) == a.hi < b.hi \/ (a.hi = b.hi /\ a.lo < b.lo)

\* The next value of `0u32..`, wrapping at the type's width.
U32Succ(v) ==
    IF v.lo + 1 < Half THEN [hi |-> v.hi, lo |-> v.lo + 1]
    ELSE [hi |-> (v.hi + 1) % Half, lo |-> 0]

PipeCapBytes == MsgSize * PipeCapMsgs

Min(a, b) == IF a <= b THEN a ELSE b

----------------------------------------------------------------------------
(* Wire format: u32::to_le_bytes / u32::from_le_bytes *)

ToLeBytesBigEndian(v) ==
    << v.hi \div 256, v.hi % 256, v.lo \div 256, v.lo % 256 >>

\* Least significant byte first.
ToLeBytes(v) ==
    << v.lo % 256, v.lo \div 256, v.hi % 256, v.hi \div 256 >>

FromLeBytes(b) == [hi |-> b[3] + 256 * b[4], lo |-> b[1] + 256 * b[2]]

----------------------------------------------------------------------------
(* Pipes: rustix::io::write / rustix::io::read on a blocking pipe *)

\* A blocking write of n <= PIPE_BUF bytes is atomic: it waits for room for
\* all n bytes and then appends them in one piece.
CanWrite(pipe, bytes) == Len(pipe) + Len(bytes) <= PipeCapBytes

PipeWrite(pipe, bytes) == [pipe |-> pipe \o bytes, n |-> Len(bytes)]

PipeReadFromTail(pipe, buf) ==
    LET n == Min(Len(pipe), Len(buf))
        off == Len(pipe) - n
    IN  [pipe |-> SubSeq(pipe, 1, off),
         buf  |-> [k \in 1..Len(buf) |-> IF k <= n THEN pipe[off + k] ELSE buf[k]],
         n    |-> n]

PipeReadShort(pipe, buf) ==
    LET n == Min(Min(Len(pipe), Len(buf)), MsgSize - 1)
    IN  [pipe |-> SubSeq(pipe, n + 1, Len(pipe)),
         buf  |-> [k \in 1..Len(buf) |-> IF k <= n THEN pipe[k] ELSE buf[k]],
         n    |-> n]

\* read(fd, &mut buf): moves the oldest min(len, available) bytes into buf.
PipeRead(pipe, buf) ==
    LET n == Min(Len(pipe), Len(buf))
    IN  [pipe |-> SubSeq(pipe, n + 1, Len(pipe)),
         buf  |-> [k \in 1..Len(buf) |-> IF k <= n THEN pipe[k] ELSE buf[k]],
         n    |-> n]

----------------------------------------------------------------------------
(* The callback closure, looper.rs 31-38 *)

CallbackContinueInclusive(recv) == U32Lt(recv, U32Of(Threshold + 1))

\* `recv < 5`: true keeps the callback attached, false detaches it.
CallbackContinue(recv) == U32Lt(recv, U32Of(Threshold))

\* One invocation on a pipe holding `pipe`.  The assert_eq! on the read
\* length panics unless exactly four bytes were read.
Callback(pipe) ==
    LET r == PipeRead(pipe, ToLeBytes(U32Max))
        recv == FromLeBytes(r.buf)
    IN  [pipe     |-> r.pipe,
         panicked |-> r.n # MsgSize,
         recv     |-> recv,
         cont     |-> CallbackContinue(recv)]

----------------------------------------------------------------------------
(* WatchedDescriptorTable (specification 4.1) *)

CbFd == "custom_callback_pipe.0"
EvFd == "custom_event_pipe.0"
Handles == {CbFd, EvFd}

Interests == {"INPUT", "OUTPUT"}
Callbacks == {"closure", "none"}

HasHandle(t, h) == \E e \in t : e.handle = h

EntryOf(t, h) == CHOOSE e \in t : e.handle = h

RegisterOverwrite(t, h, interest, cb) ==
    [table  |-> t \cup {[handle |-> h, interest |-> interest, callback |-> cb]},
     result |-> "Ok"]

\* register(handle, interest, callback): fails if the handle is present.
Register(t, h, interest, cb) ==
    IF HasHandle(t, h)
    THEN [table |-> t, result |-> "DuplicateHandleError"]
    ELSE [table  |-> t \cup {[handle |-> h, interest |-> interest, callback |-> cb]},
          result |-> "Ok"]

\* unregister(handle): removes the entry; fails if absent.
Unregister(t, h) ==
    IF HasHandle(t, h)
    THEN [table |-> {e \in t : e.handle # h}, result |-> "Ok"]
    ELSE [table |-> t, result |-> "NotFoundError"]

\* The handles a wait reports as ready: readable pipes.
ReadySet == {h \in Handles :
               \/ h = CbFd /\ Len(cbPipe) > 0
               \/ h = EvFd /\ Len(evPipe) > 0}

\* entries_matching(ready_set): entries whose handle is ready for its interest.
EntriesMatching(t, ready) ==
    {e \in t : e.handle \in ready /\ e.interest = "INPUT"}

----------------------------------------------------------------------------
(* Events *)

NoEvent == "NoEvent"

MainEvents == {"SaveState", "Pause", "Resume", "InitWindow", "TerminateWindow",
               "WindowResized", "RedrawNeeded", "InputAvailable",
               "ConfigChanged", "LowMemory", "Destroy", "OtherMain"}

PollEvents == {"Wake", "Timeout", "OtherPoll"} \cup MainEvents

Scenario == <<"InitWindow", "Timeout">>
\* scenarioPos once the delivered events have left Scenario.
Off == Len(Scenario) + 1

----------------------------------------------------------------------------
(* Initial state: android_main has run up to line 59 *)

Init ==
    /\ table = Register({}, CbFd, "INPUT", "closure").table
    /\ regResult = Register({}, CbFd, "INPUT", "closure").result
    /\ evPipe = <<>>
    /\ cbPipe = <<>>
    /\ i = U32Of(0)
    /\ ppc = "send_event"
    /\ exit = FALSE
    /\ redraw_pending = TRUE
    /\ render_state = FALSE
    /\ pc = "loop"
    /\ ev = NoEvent
    /\ cbReady = FALSE
    /\ ops = <<>>
    /\ cbLog = <<>>
    /\ scenarioPos = 0
    /\ renderPasses = 0
    /\ rt = [phase |-> "idle", value |-> U32Of(0), wire |-> <<>>, out |-> U32Of(0)]
    /\ tcall = [op |-> "none", handle |-> CbFd, interest |-> "INPUT",
                callback |-> "closure", before |-> {}]

----------------------------------------------------------------------------
(* Producer thread, looper.rs 42-55 *)

ProducerSendEventAndAdvance ==
    /\ ppc = "send_event"
    /\ CanWrite(evPipe, ToLeBytes(i))
    /\ LET w == PipeWrite(evPipe, ToLeBytes(i))
       IN  /\ evPipe' = w.pipe
           /\ ppc' = IF w.n = MsgSize THEN "send_event" ELSE "panicked"
           /\ i' = IF w.n = MsgSize THEN U32Succ(i) ELSE i
    /\ UNCHANGED <<table, regResult, cbPipe, cbLog>>
    /\ UNCHANGED looperVars
    /\ UNCHANGED harnessVars

\* write(&custom_event_pipe.1, &i.to_le_bytes())
ProducerSendEvent ==
    /\ ppc = "send_event"
    /\ CanWrite(evPipe, ToLeBytes(i))
    /\ LET w == PipeWrite(evPipe, ToLeBytes(i))
       IN  /\ evPipe' = w.pipe
           /\ ppc' = IF w.n = MsgSize THEN "send_callback" ELSE "panicked"
    /\ UNCHANGED <<table, regResult, cbPipe, i, cbLog>>
    /\ UNCHANGED looperVars
    /\ UNCHANGED harnessVars

\* write(&custom_callback_pipe.1, &i.to_le_bytes()), then the next i
ProducerSendCallback ==
    /\ ppc = "send_callback"
    /\ CanWrite(cbPipe, ToLeBytes(i))
    /\ LET w == PipeWrite(cbPipe, ToLeBytes(i))
       IN  /\ cbPipe' = w.pipe
           /\ ppc' = IF w.n = MsgSize THEN "send_event" ELSE "panicked"
           /\ i' = IF w.n = MsgSize THEN U32Succ(i) ELSE i
    /\ UNCHANGED <<table, regResult, evPipe, cbLog>>
    /\ UNCHANGED looperVars
    /\ UNCHANGED harnessVars

----------------------------------------------------------------------------
(* Looper thread, looper.rs 61-131 *)

LoopCheckIgnoresExit ==
    /\ pc = "loop"
    /\ pc' = "poll"
    /\ ev' = NoEvent
    /\ cbReady' = FALSE
    /\ ops' = <<>>
    /\ UNCHANGED <<table, regResult, cbPipe, cbLog, exit, redraw_pending,
                   render_state, scenarioPos, renderPasses>>
    /\ UNCHANGED producerVars
    /\ UNCHANGED harnessVars

\* `while !exit`: the previous poll_events call has returned.
LoopCheck ==
    /\ pc = "loop"
    /\ pc' = IF exit THEN "done" ELSE "poll"
    /\ ev' = NoEvent
    /\ cbReady' = FALSE
    /\ ops' = <<>>
    /\ UNCHANGED <<table, regResult, cbPipe, cbLog, exit, redraw_pending,
                   render_state, scenarioPos, renderPasses>>
    /\ UNCHANGED producerVars
    /\ UNCHANGED harnessVars

\* How far the delivered events follow Scenario once e is delivered.
Follow(pos, e) ==
    IF e = NoEvent THEN pos
    ELSE IF pos # Off /\ pos < Len(Scenario) /\ e = Scenario[pos + 1]
         THEN pos + 1
         ELSE Off

\* app.poll_events(Some(1s), closure): the wait returns.  It reports Timeout
\* only when nothing was ready, and no event at all only when the cycle
\* purely dispatches a descriptor callback.
PollEventsCall ==
    /\ pc = "poll"
    /\ \E e \in PollEvents \cup {NoEvent} :
         LET ready == EntriesMatching(table, ReadySet) # {}
         IN  /\ e = "Timeout" => ~ready
             /\ e = NoEvent => ready
             /\ ev' = e
             /\ cbReady' = ready
             /\ scenarioPos' = Follow(scenarioPos, e)
             /\ renderPasses' = IF Follow(scenarioPos, e) = Off THEN 0 ELSE renderPasses
    /\ pc' = "dispatch"
    /\ UNCHANGED <<table, regResult, cbPipe, cbLog, exit, redraw_pending,
                   render_state, ops>>
    /\ UNCHANGED producerVars
    /\ UNCHANGED harnessVars

AfterDispatchPollsAgain ==
    IF cbReady /\ HasHandle(table, CbFd) /\ Len(cbPipe) > MsgSize THEN "dispatch"
    ELSE IF ev = NoEvent THEN "loop" ELSE "event"

\* Where the looper thread goes once the descriptor callbacks have run.
AfterDispatch == IF ev = NoEvent THEN "loop" ELSE "event"

DispatchKeepsStopped ==
    /\ pc = "dispatch"
    /\ IF cbReady /\ HasHandle(table, CbFd) /\ EntryOf(table, CbFd).callback = "closure"
       THEN LET c == Callback(cbPipe)
            IN  /\ cbPipe' = c.pipe
                /\ cbLog' = Append(cbLog, [recv |-> c.recv, cont |-> c.cont])
                /\ ops' = Append(ops, "callback")
                /\ UNCHANGED <<table, regResult>>
                /\ pc' = IF c.panicked THEN "panicked" ELSE AfterDispatch
       ELSE /\ pc' = AfterDispatch
            /\ UNCHANGED <<table, regResult, cbPipe, cbLog, ops>>
    /\ UNCHANGED <<exit, redraw_pending, render_state, ev, cbReady,
                   scenarioPos, renderPasses>>
    /\ UNCHANGED producerVars
    /\ UNCHANGED harnessVars

\* The wait dispatches the callback of each ready handle once; a callback
\* that returns false is unregistered before the next cycle.
Dispatch ==
    /\ pc = "dispatch"
    /\ IF cbReady /\ HasHandle(table, CbFd) /\ EntryOf(table, CbFd).callback = "closure"
       THEN LET c == Callback(cbPipe)
                u == Unregister(table, CbFd)
            IN  /\ cbPipe' = c.pipe
                /\ cbLog' = Append(cbLog, [recv |-> c.recv, cont |-> c.cont])
                /\ ops' = Append(ops, "callback")
                /\ IF c.panicked \/ c.cont
                   THEN UNCHANGED <<table, regResult>>
                   ELSE table' = u.table /\ regResult' = u.result
                /\ pc' = IF c.panicked THEN "panicked" ELSE AfterDispatch
       ELSE /\ pc' = AfterDispatch
            /\ UNCHANGED <<table, regResult, cbPipe, cbLog, ops>>
    /\ UNCHANGED <<exit, redraw_pending, render_state, ev, cbReady,
                   scenarioPos, renderPasses>>
    /\ UNCHANGED producerVars
    /\ UNCHANGED harnessVars

\* The `match event` of the closure, looper.rs 65-114, as the new values of
\* (exit, redraw_pending, render_state).
MatchEventNoTimeoutRedraw(e, x, rp, rs) ==
    IF e = "InitWindow" THEN [exit |-> x, redraw_pending |-> TRUE, render_state |-> TRUE]
    ELSE IF e = "TerminateWindow" THEN [exit |-> x, redraw_pending |-> rp, render_state |-> FALSE]
    ELSE IF e \in {"WindowResized", "RedrawNeeded", "InputAvailable"}
         THEN [exit |-> x, redraw_pending |-> TRUE, render_state |-> rs]
    ELSE IF e = "Destroy" THEN [exit |-> TRUE, redraw_pending |-> rp, render_state |-> rs]
    ELSE [exit |-> x, redraw_pending |-> rp, render_state |-> rs]

MatchEventWakeRedraws(e, x, rp, rs) ==
    IF e \in {"Timeout", "Wake"} THEN [exit |-> x, redraw_pending |-> TRUE, render_state |-> rs]
    ELSE IF e = "InitWindow" THEN [exit |-> x, redraw_pending |-> TRUE, render_state |-> TRUE]
    ELSE IF e = "TerminateWindow" THEN [exit |-> x, redraw_pending |-> rp, render_state |-> FALSE]
    ELSE IF e \in {"WindowResized", "RedrawNeeded", "InputAvailable"}
         THEN [exit |-> x, redraw_pending |-> TRUE, render_state |-> rs]
    ELSE IF e = "Destroy" THEN [exit |-> TRUE, redraw_pending |-> rp, render_state |-> rs]
    ELSE [exit |-> x, redraw_pending |-> rp, render_state |-> rs]

MatchEventDestroyRedraws(e, x, rp, rs) ==
    IF e = "Timeout" THEN [exit |-> x, redraw_pending |-> TRUE, render_state |-> rs]
    ELSE IF e = "InitWindow" THEN [exit |-> x, redraw_pending |-> TRUE, render_state |-> TRUE]
    ELSE IF e = "TerminateWindow" THEN [exit |-> x, redraw_pending |-> rp, render_state |-> FALSE]
    ELSE IF e \in {"WindowResized", "RedrawNeeded", "InputAvailable"}
         THEN [exit |-> x, redraw_pending |-> TRUE, render_state |-> rs]
    ELSE IF e = "Destroy" THEN [exit |-> TRUE, redraw_pending |-> TRUE, render_state |-> rs]
    ELSE [exit |-> x, redraw_pending |-> rp, render_state |-> rs]

MatchEventTerminateClears(e, x, rp, rs) ==
    IF e = "Timeout" THEN [exit |-> x, redraw_pending |-> TRUE, render_state |-> rs]
    ELSE IF e = "InitWindow" THEN [exit |-> x, redraw_pending |-> TRUE, render_state |-> TRUE]
    ELSE IF e = "TerminateWindow" THEN [exit |-> x, redraw_pending |-> FALSE, render_state |-> FALSE]
    ELSE IF e \in {"WindowResized", "RedrawNeeded", "InputAvailable"}
         THEN [exit |-> x, redraw_pending |-> TRUE, render_state |-> rs]
    ELSE IF e = "Destroy" THEN [exit |-> TRUE, redraw_pending |-> rp, render_state |-> rs]
    ELSE [exit |-> x, redraw_pending |-> rp, render_state |-> rs]

MatchEventResizeIgnored(e, x, rp, rs) ==
    IF e = "Timeout" THEN [exit |-> x, redraw_pending |-> TRUE, render_state |-> rs]
    ELSE IF e = "InitWindow" THEN [exit |-> x, redraw_pending |-> TRUE, render_state |-> TRUE]
    ELSE IF e = "TerminateWindow" THEN [exit |-> x, redraw_pending |-> rp, render_state |-> FALSE]
    ELSE IF e \in {"RedrawNeeded", "InputAvailable"}
         THEN [exit |-> x, redraw_pending |-> TRUE, render_state |-> rs]
    ELSE IF e = "Destroy" THEN [exit |-> TRUE, redraw_pending |-> rp, render_state |-> rs]
    ELSE [exit |-> x, redraw_pending |-> rp, render_state |-> rs]

MatchEvent(e, x, rp, rs) ==
    IF e = "Wake" THEN [exit |-> x, redraw_pending |-> rp, render_state |-> rs]
    ELSE IF e = "Timeout" THEN [exit |-> x, redraw_pending |-> TRUE, render_state |-> rs]
    ELSE IF e \in {"SaveState", "Pause", "Resume"}
         THEN [exit |-> x, redraw_pending |-> rp, render_state |-> rs]
    ELSE IF e = "InitWindow" THEN [exit |-> x, redraw_pending |-> TRUE, render_state |-> TRUE]
    ELSE IF e = "TerminateWindow" THEN [exit |-> x, redraw_pending |-> rp, render_state |-> FALSE]
    ELSE IF e \in {"WindowResized", "RedrawNeeded", "InputAvailable"}
         THEN [exit |-> x, redraw_pending |-> TRUE, render_state |-> rs]
    ELSE IF e \in {"ConfigChanged", "LowMemory"}
         THEN [exit |-> x, redraw_pending |-> rp, render_state |-> rs]
    ELSE IF e = "Destroy" THEN [exit |-> TRUE, redraw_pending |-> rp, render_state |-> rs]
    ELSE [exit |-> x, redraw_pending |-> rp, render_state |-> rs]

\* The closure is called with the surfaced event: the match.
HandleEvent ==
    /\ pc = "event"
    /\ LET m == MatchEvent(ev, exit, redraw_pending, render_state)
       IN  /\ exit' = m.exit
           /\ redraw_pending' = m.redraw_pending
           /\ render_state' = m.render_state
    /\ ops' = Append(ops, "event")
    /\ pc' = "redraw"
    /\ UNCHANGED <<table, regResult, cbPipe, cbLog, ev, cbReady, scenarioPos,
                   renderPasses>>
    /\ UNCHANGED producerVars
    /\ UNCHANGED harnessVars

ShouldRedrawIgnoresRenderState(rp, rs) == rp

\* `if redraw_pending { if let Some(_rs) = render_state { ... } }`
ShouldRedraw(rp, rs) == rp /\ rs

RedrawStepKeepsPending ==
    /\ pc = "redraw"
    /\ IF ShouldRedraw(redraw_pending, render_state)
       THEN /\ ops' = ops \o <<"drain", "render">>
            /\ renderPasses' = IF scenarioPos = Off THEN 0 ELSE renderPasses + 1
            /\ UNCHANGED redraw_pending
       ELSE UNCHANGED <<redraw_pending, ops, renderPasses>>
    /\ pc' = "loop"
    /\ UNCHANGED <<table, regResult, cbPipe, cbLog, exit, render_state, ev,
                   cbReady, scenarioPos>>
    /\ UNCHANGED producerVars
    /\ UNCHANGED harnessVars

\* The rest of the closure, looper.rs 116-128: clear the flag, drain the
\* input events, render.
RedrawStep ==
    /\ pc = "redraw"
    /\ IF ShouldRedraw(redraw_pending, render_state)
       THEN /\ redraw_pending' = FALSE
            /\ ops' = ops \o <<"drain", "render">>
            /\ renderPasses' = IF scenarioPos = Off THEN 0 ELSE renderPasses + 1
       ELSE UNCHANGED <<redraw_pending, ops, renderPasses>>
    /\ pc' = "loop"
    /\ UNCHANGED <<table, regResult, cbPipe, cbLog, exit, render_state, ev,
                   cbReady, scenarioPos>>
    /\ UNCHANGED producerVars
    /\ UNCHANGED harnessVars

----------------------------------------------------------------------------

ProducerStep == ProducerSendEvent \/ ProducerSendCallback

LooperStep == LoopCheck \/ PollEventsCall \/ Dispatch \/ HandleEvent \/ RedrawStep

(* Harness for the wire format: send one value on an empty channel, then  *)
(* receive it as the callback does.                                       *)

SampleBytes == {0, 1, 255}

SampleValues == {[hi |-> a + 256 * b, lo |-> c + 256 * d] :
                   a \in SampleBytes, b \in SampleBytes,
                   c \in SampleBytes, d \in SampleBytes}

RTSend(v) ==
    /\ rt.phase \in {"idle", "received"}
    /\ CanWrite(<<>>, ToLeBytes(v))
    /\ rt' = [phase |-> "sent", value |-> v,
              wire |-> PipeWrite(<<>>, ToLeBytes(v)).pipe, out |-> U32Of(0)]
    /\ UNCHANGED <<table, regResult, cbPipe, cbLog, tcall>>
    /\ UNCHANGED looperVars
    /\ UNCHANGED producerVars

RTReceive ==
    /\ rt.phase = "sent"
    /\ LET c == Callback(rt.wire)
       IN  rt' = [phase |-> IF c.panicked THEN "short_read" ELSE "received",
                  value |-> rt.value, wire |-> c.pipe, out |-> c.recv]
    /\ UNCHANGED <<table, regResult, cbPipe, cbLog, tcall>>
    /\ UNCHANGED looperVars
    /\ UNCHANGED producerVars

RTNext ==
    \/ \E v \in SampleValues : RTSend(v)
    \/ RTReceive

RoundTripSpec == Init /\ [][RTNext]_vars

----------------------------------------------------------------------------
(* Harness for the descriptor table: any register / unregister call.      *)

TRegister(h, interest, cb) ==
    /\ LET r == Register(table, h, interest, cb)
       IN  /\ table' = r.table
           /\ regResult' = r.result
    /\ tcall' = [op |-> "register", handle |-> h, interest |-> interest,
                 callback |-> cb, before |-> table]
    /\ UNCHANGED <<cbPipe, cbLog, rt>>
    /\ UNCHANGED looperVars
    /\ UNCHANGED producerVars

TUnregister(h) ==
    /\ LET r == Unregister(table, h)
       IN  /\ table' = r.table
           /\ regResult' = r.result
    /\ tcall' = [op |-> "unregister", handle |-> h, interest |-> "INPUT",
                 callback |-> "none", before |-> table]
    /\ UNCHANGED <<cbPipe, cbLog, rt>>
    /\ UNCHANGED looperVars
    /\ UNCHANGED producerVars

TableNext ==
    \/ \E h \in Handles, m \in Interests, cb \in Callbacks : TRegister(h, m, cb)
    \/ \E h \in Handles : TUnregister(h)

TableSpec == Init /\ [][TableNext]_vars

----------------------------------------------------------------------------

Next ==
    \/ ProducerSendEvent
    \/ ProducerSendCallback
    \/ LoopCheck
    \/ PollEventsCall
    \/ Dispatch
    \/ HandleEvent
    \/ RedrawStep

Spec == Init /\ [][Next]_vars

\* Both threads keep being scheduled.
FairSpec == Spec /\ WF_vars(ProducerStep) /\ WF_vars(LooperStep)

----------------------------------------------------------------------------
(* Properties *)

\* The callback has returned false (stop) at least once.
CbStopped == \E k \in 1..Len(cbLog) : ~cbLog[k].cont

\* The values decoded by the callback so far, in invocation order.
Received == [k \in 1..Len(cbLog) |-> cbLog[k].recv]

\* The whole messages still queued in custom_callback_pipe, oldest first.
Queued ==
    [k \in 1..(Len(cbPipe) \div MsgSize) |->
        FromLeBytes(SubSeq(cbPipe, MsgSize * (k - 1) + 1, MsgSize * k))]

Range(s) == {s[k] : k \in 1..Len(s)}

NoRender(s) == \A k \in 1..Len(s) : s[k] \notin {"drain", "render"}

\* C1: the callback is invoked once per sent value, in order, for 0, 1, 2,
\* 3, 4, 5 and for nothing else: at most six invocations, the k-th one
\* decoding k-1, the handle detached only after the sixth; and unless the
\* loop has exited the sixth invocation does happen.
C1_ExactlyOncePerValue ==
    /\ [](/\ Len(cbLog) <= Threshold + 1
          /\ \A k \in 1..Len(cbLog) : cbLog[k].recv = U32Of(k - 1)
          /\ (~HasHandle(table, CbFd) => Len(cbLog) = Threshold + 1))
    /\ <>(exit \/ Len(cbLog) = Threshold + 1)

C1_Witness ==
    /\ Len(cbLog) = Threshold + 1
    /\ ~HasHandle(table, CbFd)
    /\ Len(cbPipe) >= MsgSize

\* C2: once the callback has returned stop its handle is not in the table
\* and the callback is not invoked again, in this or any later cycle.
C2_NoDispatchAfterStop ==
    [][CbStopped' => (/\ ~HasHandle(table', CbFd)
                      /\ (CbStopped => cbLog' = cbLog))]_vars

C2_Witness ==
    /\ CbStopped
    /\ Len(cbPipe) >= MsgSize
    /\ pc = "loop"
    /\ ev # NoEvent
    /\ "callback" \notin Range(ops)

\* C3 as stated: after InitWindow then Timeout from the initial state,
\* render_state is present, redraw_pending is false and exactly one render
\* pass has been recorded.
C3_OneRenderPass ==
    (scenarioPos = Len(Scenario) /\ pc = "loop")
        => (render_state /\ ~redraw_pending /\ renderPasses = 1)

\* C3 amended: InitWindow makes render_state present and redraw_pending
\* true, then false after a first render pass; Timeout makes redraw_pending
\* true again, then false after a second render pass: two in total.
C3_TwoRenderPasses ==
    /\ (scenarioPos = 1 /\ pc = "redraw")
           => (render_state /\ redraw_pending /\ renderPasses = 0)
    /\ (scenarioPos = 1 /\ pc \in {"loop", "poll"})
           => (render_state /\ ~redraw_pending /\ renderPasses = 1)
    /\ (scenarioPos = 2 /\ pc = "redraw")
           => (render_state /\ redraw_pending /\ renderPasses = 1)
    /\ (scenarioPos = 2 /\ pc \in {"loop", "poll"})
           => (render_state /\ ~redraw_pending /\ renderPasses = 2)

C3_Witness ==
    /\ scenarioPos = Len(Scenario)
    /\ pc = "poll"
    /\ renderPasses = 2

\* C4: processing Destroy sets exit; exit is never cleared; once exit is set
\* the loop only finishes the current closure call and stops, and no
\* poll_events call is issued again.
C4_DestroyExits ==
    [][/\ (exit => exit')
       /\ ((pc = "event" /\ pc' # "event" /\ ev = "Destroy") => exit')
       /\ (exit => pc' \in {"redraw", "loop", "done"})
       /\ ((exit /\ pc = "loop" /\ pc' # "loop") => pc' = "done")]_vars

C4_Witness == pc = "done" /\ exit /\ ev = NoEvent

\* C5: a value sent as four little-endian bytes and received by reading
\* four bytes and decoding them little-endian comes back unchanged, and
\* nothing is left in the channel.
C5_RoundTrip ==
    rt.phase \in {"received", "short_read"}
        => (rt.phase = "received" /\ rt.out = rt.value /\ rt.wire = <<>>)

C5_Witness == rt.phase = "received" /\ rt.value = U32Max /\ rt.out = U32Max

\* C6: the values the callback has decoded, followed by the messages still
\* queued in the pipe, are exactly the values the producer has written, in
\* the order written: 0, 1, 2, ...
C6_SendOrder ==
    /\ Len(cbPipe) % MsgSize = 0
    /\ Len(Received \o Queued) < Half
    /\ Received \o Queued = [k \in 1..Len(Received \o Queued) |-> U32Of(k - 1)]
    /\ U32Of(Len(Received \o Queued)) = i

C6_Witness ==
    /\ Len(cbLog) >= 2
    /\ Len(cbPipe) >= 2 * MsgSize
    /\ HasHandle(table, CbFd)

\* C7: the table never holds two entries for one handle, and a register
\* call for a handle that is present returns DuplicateHandleError and
\* leaves the table as it was.
C7_NoDuplicateHandle ==
    /\ \A e1 \in table, e2 \in table : e1.handle = e2.handle => e1 = e2
    /\ (tcall.op = "register" /\ HasHandle(tcall.before, tcall.handle))
           => (regResult = "DuplicateHandleError" /\ table = tcall.before)

C7_Witness ==
    /\ tcall.op = "register"
    /\ HasHandle(tcall.before, tcall.handle)
    /\ regResult = "DuplicateHandleError"
    /\ EntryOf(table, tcall.handle).callback = "closure"
    /\ tcall.callback = "none"
    /\ tcall.interest = "OUTPUT"

\* The oldest unread message in custom_event_pipe is the value v.
EvHeadIs(v) ==
    /\ Len(evPipe) >= MsgSize
    /\ FromLeBytes(SubSeq(evPipe, 1, MsgSize)) = U32Of(v)

\* C9: every value written to custom_event_pipe is eventually consumed
\* while the scheduler is running: a value at the head of the pipe does not
\* stay there for ever unless the loop has exited.
C9_EveryEventConsumed ==
    \A v \in 0..PipeCapMsgs : EvHeadIs(v) ~> (exit \/ ~EvHeadIs(v))

NoOpEvents == {"Wake", "SaveState", "Resume", "Pause", "ConfigChanged",
               "LowMemory", "OtherMain"}

\* C10: while the closure processes a Wake, SaveState, Resume, Pause,
\* ConfigChanged, LowMemory or unrecognized Main event, neither the match
\* nor the redraw step changes render_state, redraw_pending or exit, and
\* the cycle performs no input drain and no render pass.
C10_NoOpEvents ==
    [][(ev \in NoOpEvents /\ pc \in {"event", "redraw"})
          => (/\ UNCHANGED <<render_state, redraw_pending, exit>>
              /\ NoRender(ops'))]_vars

C10_Witness ==
    /\ pc = "loop"
    /\ ev \in NoOpEvents
    /\ "event" \in Range(ops)
    /\ redraw_pending
    /\ ~render_state

RedrawEvents == {"Timeout", "InitWindow", "WindowResized", "RedrawNeeded",
                 "InputAvailable"}

IsRenderOp(o) == o \in {"drain", "render"}

\* The input drains and render passes of a cycle, in order.
RenderOps(s) == SelectSeq(s, IsRenderOp)

\* C11: when the closure has processed an event that sets redraw_pending
\* and render_state is present after it, then by the time poll_events
\* returns the cycle has done exactly one input drain followed by exactly
\* one render pass and redraw_pending is false; before the redraw step it
\* has done neither and redraw_pending is true.
C11_OneDrainOneRender ==
    /\ (pc = "redraw" /\ ev \in RedrawEvents /\ render_state)
           => (redraw_pending /\ RenderOps(ops) = <<>>)
    /\ (pc = "loop" /\ ev \in RedrawEvents /\ render_state)
           => (~redraw_pending /\ RenderOps(ops) = <<"drain", "render">>)

C11_Witness ==
    /\ pc = "loop"
    /\ ev = "WindowResized"
    /\ render_state
    /\ ops = <<"callback", "event", "drain", "render">>

\* C12: a step that performs an input drain or a render pass is taken with
\* render_state present, and while render_state is absent the current cycle
\* holds no drain and no render pass, whatever event it processed.
C12_RenderOnlyWithRenderState ==
    [][/\ (RenderOps(ops') # RenderOps(ops) /\ ops' # <<>>)
              => (render_state /\ render_state')
       /\ ~render_state' => NoRender(ops')]_vars

C12_Witness ==
    /\ pc = "loop"
    /\ ev \in {"Timeout", "RedrawNeeded", "WindowResized", "InputAvailable"}
    /\ ~render_state
    /\ redraw_pending
    /\ "event" \in Range(ops)

\* C13: the cycle that processes Destroy performs no input drain and no
\* render pass, and once exit is set none is ever performed.
C13_NoRenderOnDestroy ==
    /\ (ev = "Destroy" /\ pc \in {"redraw", "loop"}) => (exit /\ NoRender(ops))
    /\ exit => NoRender(ops)
    /\ pc = "done" => (exit /\ ops = <<>>)

C13_Witness ==
    /\ pc = "loop"
    /\ ev = "Destroy"
    /\ exit
    /\ render_state
    /\ "event" \in Range(ops)

\* C14: in one wait cycle the callback of a ready handle is invoked at most
\* once, and when the cycle both dispatches a callback and surfaces an
\* event the callback comes first.
C14_CallbackBeforeEvent ==
    /\ Cardinality({k \in 1..Len(ops) : ops[k] = "callback"}) <= 1
    /\ \A k \in 1..Len(ops) : ops[k] = "callback" => k = 1
    /\ (pc \in {"redraw", "loop"} /\ cbReady /\ ev # NoEvent)
           => (Len(ops) >= 2 /\ ops[1] = "callback" /\ ops[2] = "event")

C14_Witness ==
    /\ pc = "loop"
    /\ Len(ops) >= 2
    /\ ops[1] = "callback"
    /\ ops[2] = "event"
    /\ Len(cbPipe) >= MsgSize
    /\ HasHandle(table, CbFd)

\* C15: whenever the loop is about to call poll_events (and at the loop
\* test before it), redraw_pending and render_state are not both set.
C15_NoOwedRedrawAtWait ==
    pc \in {"loop", "poll"} => ~(redraw_pending /\ render_state)

C15_Witness ==
    /\ pc = "poll"
    /\ render_state
    /\ ~redraw_pending

\* C16: redraw_pending goes from true to false only in the step that
\* drains input and renders; processing TerminateWindow leaves it as it
\* was; and while render_state is absent a pending redraw stays pending.
C16_PendingClearedOnlyByRender ==
    [][/\ (redraw_pending /\ ~redraw_pending')
              => (render_state /\ ops' = ops \o <<"drain", "render">>)
       /\ (pc = "event" /\ pc' # "event" /\ ev = "TerminateWindow")
              => (redraw_pending' = redraw_pending /\ ~render_state')
       /\ (redraw_pending /\ ~render_state) => redraw_pending']_vars

C16_Witness ==
    /\ pc = "loop"
    /\ ev = "InitWindow"
    /\ ~redraw_pending
    /\ RenderOps(ops) = <<"drain", "render">>
    /\ scenarioPos = Off

\* C17: the assertion on the read length never fails: the callback pipe
\* always holds whole messages, every invocation of the callback read four
\* bytes, and what it decoded is a value the producer wrote.
C17_ReadLengthAssertionHolds ==
    /\ pc # "panicked"
    /\ Len(cbPipe) % MsgSize = 0
    /\ (pc = "dispatch" /\ cbReady /\ HasHandle(table, CbFd))
           => Len(cbPipe) >= MsgSize
    /\ \A k \in 1..Len(cbLog) : U32Lt(cbLog[k].recv, i)

C17_Witness ==
    /\ pc = "dispatch"
    /\ cbReady
    /\ HasHandle(table, CbFd)
    /\ Len(cbLog) >= 1
    /\ Len(cbPipe) >= 2 * MsgSize
    /\ ppc = "send_callback"

\* The number of values written so far to each pipe.
EvWritten == Len(evPipe) \div MsgSize
CbWritten == Len(cbLog) + Len(cbPipe) \div MsgSize

ProducerBlocked == ppc = "send_event" /\ ~CanWrite(evPipe, ToLeBytes(i))

\* C18: the callback pipe has received at most as many values as the event
\* pipe and at most one fewer, the difference being one exactly while the
\* producer is between its two writes; a producer blocked on the event pipe
\* stays blocked and writes nothing more to the callback pipe.
C18_EventPipeWrittenFirst ==
    [][/\ CbWritten' <= EvWritten'
       /\ EvWritten' <= CbWritten' + 1
       /\ (EvWritten' = CbWritten' + 1) <=> (ppc' = "send_callback")
       /\ ProducerBlocked => (ProducerBlocked' /\ CbWritten' = CbWritten)]_vars

C18_Witness ==
    /\ ProducerBlocked
    /\ CbWritten = PipeCapMsgs
    /\ pc = "poll"
    /\ ~HasHandle(table, CbFd)

====
